---- MODULE Spec2Model ----
(***************************************************************************)
(* Model of the Qwen credential proxy: src/main.py (the FastAPI server:    *)
(* credential file, refresh_access_token_if_needed, /setup, /credentials,  *)
(* the catch-all proxy) and src/refresher.py (the separate worker process  *)
(* that refreshes the same credential file once per hour).                 *)
(***************************************************************************)
EXTENDS Integers, Sequences, FiniteSets, TLC

\* ------------------------------------------------------------ bounds
\* Number of proxy requests handled concurrently by the event loop.
NumReq == 2
\* Number of clock advances in a behaviour.
MaxTicks == 1
\* Number of token pairs the provider issues in a behaviour.
MaxIssued == 2

\* ------------------------------------------------- program constants
\* main.py:66  time.time() > (creds.expiry_date - 60)
RefreshMargin == 60
\* main.py:85 / refresher.py:63  new_token_data.get("expires_in", 3600)
DefaultTTL == 3600
\* main.py:113  InitialCredentials.expires_in: int = 3600
SetupDefaultTTL == 3600
\* refresher.py:15
REFRESH_INTERVAL_SECONDS == 3600

Procs == 1..NumReq

\* ------------------------------------------------- the credentials file
\* Content of CREDS_FILE (qwen_credentials.json).  kind is
\*   "absent"  : the file does not exist
\*   "garbage" : the file exists and its text is not JSON
\*   "badobj"  : the file holds a JSON object without the required fields
\*   "record"  : the file holds a JSON object with the three core fields;
\*               meta says whether token_type / resource_url are present too
MkFile(k, a, r, e, m) ==
  [kind |-> k, access_token |-> a, refresh_token |-> r, expiry_date |-> e, meta |-> m]

FileAbsent == MkFile("absent", "", "", 0, FALSE)

FileGarbage == MkFile("garbage", "", "", 0, FALSE)

FileBadObj == MkFile("badobj", "", "", 0, FALSE)

\* refresher.py:26: Path.write_text opens the file with mode "w", which
\* truncates it, and writes the text afterwards; between the two the file is
\* there and empty.
FileEmpty == MkFile("empty", "", "", 0, FALSE)

\* class QwenCredentials(BaseModel): the three fields, nothing else
QwenCredentials(a, r, e) ==
  [access_token |-> a, refresh_token |-> r, expiry_date |-> e]

NoCreds == QwenCredentials("", "", 0)

\* The three core fields of a file record.
CoreOf(f) == QwenCredentials(f.access_token, f.refresh_token, f.expiry_date)

\* What a refresh still reads of the local creds once its POST is under way:
\* creds.refresh_token (main.py:90, refresher.py:67).  The other fields of
\* the local are dead from there on and are not kept.
Pending(c) == [refresh_token |-> c.refresh_token]

NoPending == [refresh_token |-> ""]

\* CREDS_FILE.exists()
Exists(f) == f.kind # "absent"

\* load_credentials(): tag "ok" with the parsed QwenCredentials (extra keys of
\* the JSON object are dropped by the pydantic model), tag "none" for a
\* missing file or text that is not JSON (JSONDecodeError is caught), tag
\* "raise" for a JSON object that fails validation (pydantic's
\* ValidationError is neither JSONDecodeError nor TypeError: it propagates).
load_credentials(f) ==
  CASE f.kind = "absent"  -> [tag |-> "none", val |-> NoCreds]
    [] f.kind = "empty"   -> [tag |-> "none", val |-> NoCreds]
    [] f.kind = "garbage" -> [tag |-> "none", val |-> NoCreds]
    [] f.kind = "badobj"  -> [tag |-> "raise", val |-> NoCreds]
    [] f.kind = "record"  ->
         [tag |-> "ok",
          val |-> QwenCredentials(f.access_token, f.refresh_token, f.expiry_date)]

\* A save that writes expiry_date in milliseconds
save_credentials_millis(c) ==
  MkFile("record", c.access_token, c.refresh_token, c.expiry_date * 1000, FALSE)

\* save_credentials(creds): write_text(creds.model_dump_json())
save_credentials(c) ==
  MkFile("record", c.access_token, c.refresh_token, c.expiry_date, FALSE)

\* refresher.load_credentials_from_file(): json.loads of the text, no
\* validation; tag "none" for a missing file or text that is not JSON.
load_credentials_from_file(f) ==
  CASE f.kind = "absent"  -> [tag |-> "none", val |-> f]
    [] f.kind = "empty"   -> [tag |-> "none", val |-> f]
    [] f.kind = "garbage" -> [tag |-> "none", val |-> f]
    [] OTHER              -> [tag |-> "dict", val |-> f]

\* refresher.save_credentials_to_file(creds): json.dumps of the dict as given;
\* this is the file once the text is written
save_credentials_to_file(d) == d

\* A write of the worker that has opened the file and not yet written the
\* text: the text, and for a refresh the response it comes from and the time
\* the response was processed.
MkSave(d, resp, t) == [content |-> d, tresp |-> resp, at |-> t]

\* ------------------------------------------------- the token endpoint
\* Token pairs the provider hands out, in order of issue.
ProviderAT == <<"P1", "P2", "P3", "P4">>

ProviderRT == <<"Q1", "Q2", "Q3", "Q4">>

\* The TTL the provider reports when it reports one: inside the refresh
\* margin, where an omitted expires_in (DefaultTTL) is outside it.
ProviderTTLs == {30}

MkBody(j, ha, a, hr, r, he, e) ==
  [json |-> j, has_access |-> ha, access_token |-> a,
   has_refresh |-> hr, refresh_token |-> r, has_expires |-> he, expires_in |-> e]

BodyNotJson == MkBody(FALSE, FALSE, "", FALSE, "", FALSE, 0)

BodyNoAccess == MkBody(TRUE, FALSE, "", FALSE, "", FALSE, 0)

\* Bodies the provider can send when n token pairs were issued before.
TokenBodies(n) ==
  {BodyNotJson, BodyNoAccess} \cup
  (IF n < MaxIssued
     THEN {MkBody(TRUE, TRUE, ProviderAT[n + 1], hr,
                  IF hr THEN ProviderRT[n + 1] ELSE "", FALSE, 0) : hr \in BOOLEAN}
          \cup
          {MkBody(TRUE, TRUE, ProviderAT[n + 1], hr,
                  IF hr THEN ProviderRT[n + 1] ELSE "", TRUE, e) :
             hr \in BOOLEAN, e \in ProviderTTLs}
     ELSE {})

MkTokenResp(t, s, b) == [transport |-> t, status |-> s, body |-> b]

\* No answer: the connection failed or the call timed out.
TokenTransportError == MkTokenResp(TRUE, 0, BodyNotJson)

NoTokenResp == MkTokenResp(FALSE, 0, BodyNotJson)

\* Answers of the token endpoint: none, a 200 with any body, or a 401 whose
\* body is an error object or (a provider that misreports) a token body.
TokenResponses(n) ==
  {TokenTransportError} \cup
  {MkTokenResp(FALSE, 200, b) : b \in TokenBodies(n)} \cup
  {MkTokenResp(FALSE, 401, b) :
     b \in {x \in TokenBodies(n) : ~x.has_access \/ (x.has_refresh /\ ~x.has_expires)}}

\* Whether the response carries a newly issued token pair.
Issues(resp) == ~resp.transport /\ resp.body.has_access

\* ------------------------------------------------- refresh, server side
\* The comparison turned around: a token far from expiry counts as expired.
ExpiredFlipped(c, t) == t < c.expiry_date - RefreshMargin

\* main.py:66  the token is treated as expired 60 seconds before expiry_date
Expired(c, t) == t > c.expiry_date - RefreshMargin

\* raise_for_status() left out: any answer with a token body counts.
RefreshSucceedsNoStatusCheck(resp) ==
  /\ ~resp.transport
  /\ resp.body.json
  /\ resp.body.has_access

\* The except clauses left out: whatever comes back is taken as a success.
RefreshAlwaysSucceeds(resp) == TRUE

\* main.py:79-88: the await returned a response (no RequestError),
\* raise_for_status() passed, response.json() parsed, and
\* new_token_data["access_token"] is there.
RefreshSucceeds(resp) ==
  /\ ~resp.transport
  /\ resp.status < 400
  /\ resp.body.json
  /\ resp.body.has_access

\* The refresh token taken from the response even when it has none.
NewCredsNoFallback(c, resp, t) ==
  QwenCredentials(
    resp.body.access_token,
    resp.body.refresh_token,
    t + (IF resp.body.has_expires THEN resp.body.expires_in ELSE DefaultTTL))

\* main.py:85-92: the record built from a successful response at time t
NewCreds(c, resp, t) ==
  QwenCredentials(
    resp.body.access_token,
    IF resp.body.has_refresh THEN resp.body.refresh_token ELSE c.refresh_token,
    t + (IF resp.body.has_expires THEN resp.body.expires_in ELSE DefaultTTL))

\* ------------------------------------------------- refresh, worker side
NoSave == MkSave(FileAbsent, NoTokenResp, 0)

\* refresher.py:57: creds["refresh_token"] raises KeyError unless the key is there
WorkerHasRefreshToken(d) == d.kind = "record"

\* refresher.py:59-66
WorkerRefreshSucceeds(resp) ==
  /\ ~resp.transport
  /\ resp.status < 400
  /\ resp.body.json
  /\ resp.body.has_access

\* refresher.py:63-71: the dict written after a successful response at time t
WorkerNewCreds(d, resp, t) ==
  MkFile("record",
         resp.body.access_token,
         IF resp.body.has_refresh THEN resp.body.refresh_token ELSE d.refresh_token,
         t + (IF resp.body.has_expires THEN resp.body.expires_in ELSE DefaultTTL),
         TRUE)

\* ------------------------------------------------- inbound requests
\* Header names.  Starlette hands the inbound names over lower-cased; the
\* proxy adds "Authorization" with a capital A.
Lower(k) == IF k = "Authorization" THEN "authorization" ELSE k

\* The header the Access Guard reads the caller's secret from.
GuardHeader == "x-api-key"

HeaderValue(k) ==
  CASE k = "host"          -> <<"", "proxy.local">>
    [] k = "authorization" -> <<"Bearer", "client-token">>
    [] k = "x-api-key"     -> <<"", "s3cret">>
    [] OTHER               -> <<"", "application/json">>

InboundNameSets ==
  { {"host", "accept"},
    {"host", "authorization", "x-api-key", "accept"} }

InboundHeaders == { [k \in S |-> HeaderValue(k)] : S \in InboundNameSets }

NoHeaders == [k \in {} |-> <<"", "">>]

\* main.py:163-165: copy every header except host, then set "Authorization"
ForwardHeaders(h, tok) ==
  LET kept == {k \in DOMAIN h : Lower(k) # "host"}
  IN  [k \in kept \cup {"Authorization"} |->
         IF k = "Authorization" THEN <<"Bearer", tok>> ELSE h[k]]

\* ------------------------------------------------- downstream responses
JsonCompact == "{\"x\":1}"

JsonSpaced == "{ \"x\": 1 }"

HtmlPage == "<html>bad gateway</html>"

\* response.json(): the decoded value, or a JSONDecodeError
JsonLoads(b) ==
  CASE b = JsonCompact -> [ok |-> TRUE, val |-> <<"x", 1>>]
    [] b = JsonSpaced  -> [ok |-> TRUE, val |-> <<"x", 1>>]
    [] OTHER           -> [ok |-> FALSE, val |-> <<"", 0>>]

\* JSONResponse.render: json.dumps(content, separators=(",", ":"))
JsonDumps(v) == IF v = <<"x", 1>> THEN JsonCompact ELSE "null"

\* main.py:183  "application/json" in content_type
IsJsonContentType(ct) == ct \in {"application/json", "application/json; charset=utf-8"}

MkDownResp(t, s, ct, b) == [transport |-> t, status |-> s, ctype |-> ct, body |-> b]

DownTransportError == MkDownResp(TRUE, 0, "", "")

NoDownResp == MkDownResp(FALSE, 0, "", "")

DownResponses ==
  { DownTransportError,
    MkDownResp(FALSE, 200, "application/json", JsonCompact),
    MkDownResp(FALSE, 200, "application/json; charset=utf-8", JsonSpaced),
    MkDownResp(FALSE, 200, "application/json", HtmlPage),
    MkDownResp(FALSE, 502, "application/json", JsonSpaced),
    MkDownResp(FALSE, 200, "text/html", JsonSpaced),
    MkDownResp(FALSE, 502, "text/html", HtmlPage) }

MkOut(s, k, b, m) == [status |-> s, kind |-> k, body |-> b, media |-> m]

NoOut == MkOut(0, "none", "", "")

\* An exception no handler catches: the framework answers 500.
InternalServerError == MkOut(500, "error", "Internal Server Error", "text/plain")

\* Relay with the transport failure left to the framework's 500
RelayTransportUncaught(dr) ==
  IF dr.transport
    THEN InternalServerError
    ELSE IF IsJsonContentType(dr.ctype)
           THEN IF JsonLoads(dr.body).ok
                  THEN MkOut(dr.status, "json", JsonDumps(JsonLoads(dr.body).val),
                             "application/json")
                  ELSE InternalServerError
           ELSE MkOut(dr.status, "raw", dr.body, dr.ctype)

\* main.py:170-199: what the caller gets for downstream response dr
Relay(dr) ==
  IF dr.transport
    THEN MkOut(502, "error", "Error al conectar con la API de Qwen", "application/json")
    ELSE IF IsJsonContentType(dr.ctype)
           THEN IF JsonLoads(dr.body).ok
                  THEN MkOut(dr.status, "json", JsonDumps(JsonLoads(dr.body).val),
                             "application/json")
                  ELSE InternalServerError
           ELSE MkOut(dr.status, "raw", dr.body, dr.ctype)

\* ------------------------------------------------- routing
\* main.py:29
QWEN_API_BASE_URL == "https://portal.qwen.ai"

\* main.py:151  methods=["GET", "POST", "PUT", "DELETE"]
ProxyMethods == {"GET", "POST", "PUT", "DELETE"}

\* An inbound request: method, path (without the leading "/"), body, headers.
MkRequest(m, pa, b, h) == [method |-> m, path |-> pa, body |-> b, headers |-> h]

NoRequest == MkRequest("", "", "", NoHeaders)

\* The inbound requests: the chat call with the caller's own credentials on
\* it, GET / and a PATCH.
Requests ==
  LET own   == CHOOSE h \in InboundHeaders : "authorization" \in DOMAIN h
      plain == CHOOSE h \in InboundHeaders : "authorization" \notin DOMAIN h
  IN  { MkRequest("POST", "v1/chat/completions", JsonCompact, own),
        MkRequest("GET", "", "", plain),
        MkRequest("PATCH", "v1/chat/completions", JsonCompact, plain) }

\* main.py:115, 137, 151: the routes in the order they are declared; the
\* catch-all "/{path:path}" also matches "/" (path = ""), and a method that
\* no matching route lists is answered 405 by the framework.
Route(m, pa) ==
  CASE pa = "setup" /\ m = "POST"      -> "setup_credentials"
    [] pa = "credentials" /\ m = "GET" -> "get_credentials"
    [] m \in ProxyMethods               -> "proxy_to_qwen"
    [] OTHER                            -> "405"

\* main.py:160, 172-178: the downstream request built for inbound request r
MkForward(m, u, b) == [method |-> m, url |-> u, body |-> b]

NoForward == MkForward("", <<>>, "")

ForwardRequest(r) == MkForward(r.method, <<QWEN_API_BASE_URL, "/", r.path>>, r.body)

\* ------------------------------------------------- configuration
\* A secret: presented by a caller, or configured on the server.
MkSecret(isset, v) == [set |-> isset, val |-> v]

NoSecret == MkSecret(FALSE, "")

Secrets == {NoSecret, MkSecret(TRUE, ""), MkSecret(TRUE, "s3cret"), MkSecret(TRUE, "wrong")}

ServerSecrets == {NoSecret, MkSecret(TRUE, "s3cret")}

\* os.getenv("QWEN_ACCESS_TOKEN") / os.getenv("QWEN_REFRESH_TOKEN")
MkEnv(a, r) == [access_token |-> a, refresh_token |-> r]

NoEnv == MkEnv("", "")

EnvPairs == {NoEnv, MkEnv("E1", "F1")}

\* Bodies of POST /setup
MkInitial(a, r, e) == [access_token |-> a, refresh_token |-> r, expires_in |-> e]

NoInitial == MkInitial("", "", 0)

\* One body whose TTL is exactly the refresh margin, one with the default TTL.
InitialCredentials ==
  {MkInitial("A1", "R1", RefreshMargin), MkInitial("A2", "R2", SetupDefaultTTL)}

\* Clock advances: the length of the worker's sleep.
TickSteps == {REFRESH_INTERVAL_SECONDS}

\* ------------------------------------------------- state
VARIABLES
  file,         \* content of qwen_credentials.json
  now,          \* time.time()
  ticks,        \* clock advances so far
  issued,       \* token pairs the provider has issued
  pc,           \* per proxy request: "idle", "refreshing", "forwarding"
  req,          \* per proxy request: the inbound request
  creds,        \* per proxy request: the local creds while the POST is awaited
  wpc,          \* the worker: "boot", "init_writing", "sleeping", "posting",
                \* "writing", "exited"
  wcreds,       \* the worker's local creds
  wsave,        \* the worker's write_text that has opened the file
  wake,         \* when the worker's sleep ends
  last          \* what the most recent step of a handler did

vars == <<file, now, ticks, issued, pc, req, creds,
          wpc, wcreds, wsave, wake, last>>

\* The record of a handler step: the file before it (pre), the time (at),
\* whether it sent a request to the token endpoint (posted) or consumed its
\* answer (tresp) with the local creds it still held (had), what
\* refresh_access_token_if_needed returned (returned, ret), the inbound
\* request (request, inbound), whether it sent the downstream request (sent,
\* headers, forward) or consumed its answer (dresp), and what it answered to
\* the caller (out, credbody), and the record it handed to save_credentials
\* or save_credentials_to_file (saved).
NoLast ==
  [op |-> "none", step |-> "none", pre |-> FileAbsent, at |-> 0,
   posted |-> FALSE, tresp |-> NoTokenResp, had |-> NoPending, returned |-> FALSE, ret |-> NoCreds,
   inbound |-> NoHeaders, sent |-> FALSE, headers |-> NoHeaders,
   request |-> NoRequest, forward |-> NoForward, env |-> NoEnv, saved |-> NoCreds,
   dresp |-> NoDownResp, out |-> NoOut, credbody |-> FileAbsent,
   arg |-> NoInitial, presented |-> NoSecret, configured |-> NoSecret]

Init ==
  /\ file \in {FileAbsent, FileGarbage, FileBadObj}
  /\ now = 1000
  /\ ticks = 0
  /\ issued = 0
  /\ pc = [p \in Procs |-> "idle"]
  /\ req = [p \in Procs |-> NoRequest]
  /\ creds = [p \in Procs |-> NoPending]
  /\ wpc = "boot"
  /\ wcreds = NoPending
  /\ wsave = NoSave
  /\ wake = 0
  /\ last = NoLast

\* time passes
Tick(d) ==
  /\ ticks < MaxTicks
  /\ now' = now + d
  /\ ticks' = ticks + 1
  /\ UNCHANGED <<file, issued, pc, req, creds, wpc, wcreds, wsave, wake, last>>

\* ------------------------------------------------- POST /setup
\* A setup that would overwrite: no conflict is ever reported.
SetupNeverConflicts(f) == FALSE

\* main.py:121  if CREDS_FILE.exists(): raise HTTPException(400)
SetupConflict(f) == Exists(f)

\* main.py:115-133
setup_credentials(ic) ==
  /\ IF SetupConflict(file)
       THEN /\ file' = file
            /\ last' = [NoLast EXCEPT !.op = "setup_credentials", !.step = "call",
                          !.pre = file, !.at = now, !.arg = ic,
                          !.out = MkOut(400, "error",
                                        "Las credenciales ya han sido configuradas.",
                                        "application/json")]
       ELSE /\ file' = save_credentials(
                         QwenCredentials(ic.access_token, ic.refresh_token,
                                         now + ic.expires_in))
            /\ last' = [NoLast EXCEPT !.op = "setup_credentials", !.step = "call",
                          !.pre = file, !.at = now, !.arg = ic,
                          !.saved = QwenCredentials(ic.access_token, ic.refresh_token,
                                                    now + ic.expires_in),
                          !.out = MkOut(200, "json",
                                        "Credenciales configuradas exitosamente.",
                                        "application/json")]
  /\ UNCHANGED <<now, ticks, issued, pc, req, creds, wpc, wcreds, wsave, wake>>

\* ------------------------------------------------- GET /credentials
\* main.py:137-148; the caller presents secret s and the server is
\* configured with secret conf; the handler reads neither
get_credentials(s, conf) ==
  /\ LET ld == load_credentials(file)
         base == [NoLast EXCEPT !.op = "get_credentials", !.step = "call",
                    !.pre = file, !.at = now, !.presented = s,
                    !.configured = conf]
     IN  last' =
           CASE ld.tag = "none"  ->
                  [base EXCEPT !.out = MkOut(404, "error",
                                             "El archivo de credenciales no existe",
                                             "application/json")]
             [] ld.tag = "raise" -> [base EXCEPT !.out = InternalServerError]
             [] ld.tag = "ok"    ->
                  [base EXCEPT !.out = MkOut(200, "json", "credentials", "application/json"),
                               !.credbody = file]
  /\ UNCHANGED <<file, now, ticks, issued, pc, req, creds,
                 wpc, wcreds, wsave, wake>>

\* ------------------------------------------------- the proxy route
\* HTTPException(status_code=500, detail=d)
CredentialError(d) == MkOut(500, "error", d, "application/json")

\* main.py:98-103: which except clause a failed refresh lands in
RefreshFailure(resp) ==
  IF ~resp.transport /\ resp.status >= 400
    THEN CredentialError("No se pudo refrescar el token de Qwen.")
    ELSE CredentialError("Error inesperado durante el refresco del token.")

\* main.py:151-178, up to the first network await: request r is routed to
\* proxy_to_qwen and takes slot p, the server's environment being env (the
\* handler does not read it); refresh_access_token_if_needed loads the file and either
\* raises, or returns the record (and the request is forwarded), or posts
\* to the token endpoint and waits.  The request slots are interchangeable:
\* an arriving request takes the lowest idle one.
ProxyStart(p, r, env) ==
  /\ pc[p] = "idle"
  /\ \A q \in Procs : q < p => pc[q] # "idle"
  /\ Route(r.method, r.path) = "proxy_to_qwen"
  /\ LET ld == load_credentials(file)
         h  == r.headers
         base == [NoLast EXCEPT !.op = "proxy_to_qwen", !.step = "start",
                    !.pre = file, !.at = now, !.inbound = h, !.request = r,
                    !.env = env]
     IN  CASE ld.tag = "none" ->
                /\ last' = [base EXCEPT !.out =
                              CredentialError("Credenciales de Qwen no configuradas en el servidor.")]
                /\ UNCHANGED <<pc, req, creds>>
           [] ld.tag = "raise" ->
                /\ last' = [base EXCEPT !.out = InternalServerError]
                /\ UNCHANGED <<pc, req, creds>>
           [] ld.tag = "ok" /\ Expired(ld.val, now) ->
                /\ pc' = [pc EXCEPT ![p] = "refreshing"]
                /\ req' = [req EXCEPT ![p] = r]
                /\ creds' = [creds EXCEPT ![p] = Pending(ld.val)]
                /\ last' = [base EXCEPT !.posted = TRUE]
           [] ld.tag = "ok" /\ ~Expired(ld.val, now) ->
                /\ pc' = [pc EXCEPT ![p] = "forwarding"]
                /\ UNCHANGED <<req, creds>>
                /\ last' = [base EXCEPT !.returned = TRUE, !.ret = ld.val,
                              !.sent = TRUE,
                              !.headers = ForwardHeaders(h, ld.val.access_token),
                              !.forward = ForwardRequest(r)]
  /\ UNCHANGED <<file, now, ticks, issued, wpc, wcreds, wsave, wake>>

\* main.py:151: request r has a method the catch-all route does not list
MethodNotAllowed(r) ==
  /\ Route(r.method, r.path) = "405"
  /\ last' = [NoLast EXCEPT !.op = "router", !.step = "call", !.pre = file,
                !.at = now, !.inbound = r.headers, !.request = r,
                !.out = MkOut(405, "error", "Method Not Allowed", "application/json")]
  /\ UNCHANGED <<file, now, ticks, issued, pc, req, creds, wpc, wcreds, wsave, wake>>

\* main.py:79-103 and 157-178: the token endpoint answered request p's POST
\* with resp (or the call failed); on success the new record is saved and
\* returned and the request is forwarded, otherwise the caller gets a 500.
ProxyRefreshDone(p, resp) ==
  /\ pc[p] = "refreshing"
  /\ issued' = IF Issues(resp) THEN issued + 1 ELSE issued
  /\ LET base == [NoLast EXCEPT !.op = "proxy_to_qwen", !.step = "refreshed",
                    !.pre = file, !.at = now, !.inbound = req[p].headers,
                    !.request = req[p], !.tresp = resp, !.had = creds[p]]
         new  == NewCreds(creds[p], resp, now)
     IN  IF RefreshSucceeds(resp)
           THEN /\ file' = save_credentials(new)
                /\ pc' = [pc EXCEPT ![p] = "forwarding"]
                /\ last' = [base EXCEPT !.returned = TRUE, !.ret = new, !.sent = TRUE,
                              !.saved = new,
                              !.headers = ForwardHeaders(req[p].headers, new.access_token),
                              !.forward = ForwardRequest(req[p])]
           ELSE /\ file' = file
                /\ pc' = [pc EXCEPT ![p] = "idle"]
                /\ last' = [base EXCEPT !.out = RefreshFailure(resp)]
  /\ req' = [req EXCEPT ![p] = NoRequest]
  /\ creds' = [creds EXCEPT ![p] = NoPending]
  /\ UNCHANGED <<now, ticks, wpc, wcreds, wsave, wake>>

\* main.py:172-199: the downstream API answered request p with dr (or the
\* call failed) and the answer is relayed to the caller.
ProxyRelay(p, dr) ==
  /\ pc[p] = "forwarding"
  /\ pc' = [pc EXCEPT ![p] = "idle"]
  /\ last' = [NoLast EXCEPT !.op = "proxy_to_qwen", !.step = "relay",
                !.pre = file, !.at = now, !.dresp = dr, !.out = Relay(dr)]
  /\ UNCHANGED <<file, now, ticks, issued, req, creds,
                 wpc, wcreds, wsave, wake>>

\* ------------------------------------------------- the worker process
\* refresher.py:28-43 and 78-79, up to the open of write_text
initialize_credentials(env) ==
  /\ wpc = "boot"
  /\ IF Exists(file)
       THEN /\ file' = file
            /\ wpc' = "sleeping"
            /\ wsave' = wsave
       ELSE IF env.access_token = "" \/ env.refresh_token = ""
              THEN /\ file' = file
                   /\ wpc' = "exited"
                   /\ wsave' = wsave
              ELSE /\ file' = FileEmpty
                   /\ wpc' = "init_writing"
                   /\ wsave' = MkSave(MkFile("record", env.access_token,
                                             env.refresh_token, 0, FALSE),
                                      NoTokenResp, now)
  /\ wake' = now
  /\ last' = [NoLast EXCEPT !.op = "initialize_credentials", !.step = "call",
                !.pre = file, !.at = now, !.env = env]
  /\ UNCHANGED <<now, ticks, issued, pc, req, creds, wcreds>>

\* refresher.py:45-59 and 82-85: the sleep is over; refresh_token() loads the
\* file and posts to the token endpoint, or returns and sleeps again.
WorkerCycle ==
  /\ wpc = "sleeping"
  /\ now >= wake
  /\ LET ld == load_credentials_from_file(file)
         base == [NoLast EXCEPT !.op = "refresh_token", !.step = "start",
                    !.pre = file, !.at = now]
     IN  IF ld.tag = "dict" /\ WorkerHasRefreshToken(ld.val)
           THEN /\ wpc' = "posting"
                /\ wcreds' = Pending(ld.val)
                /\ wake' = wake
                /\ last' = [base EXCEPT !.posted = TRUE]
           ELSE /\ wpc' = "sleeping"
                /\ wcreds' = wcreds
                /\ wake' = now + REFRESH_INTERVAL_SECONDS
                /\ last' = base
  /\ UNCHANGED <<file, now, ticks, issued, pc, req, creds, wsave>>

\* refresher.py:59-75: the token endpoint answered the worker's POST; a
\* successful answer is processed up to the open of write_text (72), a
\* failure is logged and the cycle is over.
WorkerRefreshDone(resp) ==
  /\ wpc = "posting"
  /\ issued' = IF Issues(resp) THEN issued + 1 ELSE issued
  /\ IF WorkerRefreshSucceeds(resp)
       THEN /\ file' = FileEmpty
            /\ wpc' = "writing"
            /\ wcreds' = wcreds
            /\ wsave' = MkSave(WorkerNewCreds(wcreds, resp, now), resp, now)
            /\ wake' = wake
            /\ last' = [NoLast EXCEPT !.op = "refresh_token", !.step = "opened",
                          !.pre = file, !.at = now, !.tresp = resp, !.had = wcreds]
       ELSE /\ file' = file
            /\ wpc' = "sleeping"
            /\ wcreds' = NoPending
            /\ wsave' = wsave
            /\ wake' = now + REFRESH_INTERVAL_SECONDS
            /\ last' = [NoLast EXCEPT !.op = "refresh_token", !.step = "refreshed",
                          !.pre = file, !.at = now, !.tresp = resp, !.had = wcreds]
  /\ UNCHANGED <<now, ticks, pc, req, creds>>

\* refresher.py:26: the text of the opened write_text reaches the file, over
\* whatever the file holds by then; the worker goes on to its cycle
\* (initialize_credentials) or to its sleep (refresh_token).
WorkerWrite ==
  /\ wpc \in {"init_writing", "writing"}
  /\ file' = save_credentials_to_file(wsave.content)
  /\ wpc' = "sleeping"
  /\ wcreds' = NoPending
  /\ wsave' = NoSave
  /\ wake' = IF wpc = "writing" THEN now + REFRESH_INTERVAL_SECONDS ELSE now
  /\ last' = IF wpc = "writing"
               THEN [NoLast EXCEPT !.op = "refresh_token", !.step = "refreshed",
                       !.pre = file, !.at = wsave.at, !.tresp = wsave.tresp,
                       !.had = wcreds, !.saved = CoreOf(wsave.content)]
               ELSE [NoLast EXCEPT !.op = "initialize_credentials",
                       !.step = "written", !.pre = file, !.at = wsave.at,
                       !.saved = CoreOf(wsave.content),
                       !.env = MkEnv(wsave.content.access_token,
                                     wsave.content.refresh_token)]
  /\ UNCHANGED <<now, ticks, issued, pc, req, creds>>

\* ------------------------------------------------- specification
Next ==
  \/ \E d \in TickSteps : Tick(d)
  \/ \E ic \in InitialCredentials : setup_credentials(ic)
  \/ \E s \in Secrets, conf \in ServerSecrets : get_credentials(s, conf)
  \/ \E p \in Procs, r \in Requests, env \in EnvPairs : ProxyStart(p, r, env)
  \/ \E r \in Requests : MethodNotAllowed(r)
  \/ \E p \in Procs : \E resp \in TokenResponses(issued) : ProxyRefreshDone(p, resp)
  \/ \E p \in Procs, dr \in DownResponses : ProxyRelay(p, dr)
  \/ \E env \in EnvPairs : initialize_credentials(env)
  \/ WorkerCycle
  \/ WorkerWrite
  \/ \E resp \in TokenResponses(issued) : WorkerRefreshDone(resp)

Spec == Init /\ [][Next]_vars

\* ------------------------------------------------- properties
\* A token response that is no successful refresh: no answer, a status
\* outside 2xx, a body that is not JSON, or one without access_token.
FailedTokenResponse(r) ==
  \/ r.transport
  \/ r.status < 200
  \/ r.status > 299
  \/ ~r.body.json
  \/ ~r.body.has_access

\* The last step is the one that completes a refresh call which got its
\* answer from the token endpoint (or the failure of its POST), on the proxy
\* path or in the worker.
RefreshAnswered ==
  /\ last.op \in {"proxy_to_qwen", "refresh_token"}
  /\ last.step = "refreshed"

\* C1: no operation uses or returns the stored access_token once
\* current_time > expiry_date - 60 without first attempting a refresh; this
\* covers the token the proxy forwards and the record GET /credentials returns.
C1_NoStaleTokenWithoutRefresh ==
  /\ ( /\ last.op = "get_credentials"
       /\ last.out.status = 200
       /\ last.at > last.credbody.expiry_date - RefreshMargin )
     => (last.posted \/ last.tresp # NoTokenResp)
  /\ ( /\ last.op = "proxy_to_qwen"
       /\ last.sent
       /\ last.pre.kind = "record"
       /\ last.headers["Authorization"] = <<"Bearer", last.pre.access_token>>
       /\ last.at > last.pre.expiry_date - RefreshMargin )
     => last.step = "refreshed"

\* C2: single-flight; of the proxy requests that find the stored record
\* within the margin, at most one has a token-refresh request under way, the
\* others wait for its result.
C2_SingleFlight == Cardinality({p \in Procs : pc[p] = "refreshing"}) <= 1

\* C3: for a stored record with expiry_date - now > 60,
\* refresh_access_token_if_needed sends nothing to the token endpoint, leaves
\* the persisted record unchanged and returns the stored record.
C3_FreshPath ==
  ( /\ last.op = "proxy_to_qwen"
    /\ last.step = "start"
    /\ last.pre.kind = "record"
    /\ last.pre.expiry_date - last.at > RefreshMargin )
  => /\ ~last.posted
     /\ file = last.pre
     /\ last.returned
     /\ last.ret = CoreOf(last.pre)

C3_Witness ==
  /\ last.op = "proxy_to_qwen"
  /\ last.step = "start"
  /\ last.pre.kind = "record"
  /\ last.pre.expiry_date - last.at > RefreshMargin
  /\ last.sent

\* C4: after a refresh answered 2xx with access_token A2, the persisted
\* record is {A2, the returned refresh_token if present else the previous
\* one, now + expires_in with 3600 when expires_in is omitted}, and on the
\* proxy path the record returned equals the record persisted.
C4_SuccessfulRefresh ==
  ( /\ RefreshAnswered
    /\ ~FailedTokenResponse(last.tresp) )
  => /\ file.kind = "record"
     /\ file.access_token = last.tresp.body.access_token
     /\ file.refresh_token =
          (IF last.tresp.body.has_refresh
             THEN last.tresp.body.refresh_token
             ELSE last.had.refresh_token)
     /\ file.expiry_date =
          last.at + (IF last.tresp.body.has_expires
                       THEN last.tresp.body.expires_in
                       ELSE 3600)
     /\ last.op = "proxy_to_qwen" => (last.returned /\ last.ret = CoreOf(file))

C4_Witness ==
  /\ last.op = "proxy_to_qwen"
  /\ last.step = "refreshed"
  /\ ~FailedTokenResponse(last.tresp)
  /\ ~last.tresp.body.has_refresh
  /\ ~last.tresp.body.has_expires
  /\ last.returned
  /\ file.refresh_token = last.had.refresh_token
  /\ file # last.pre

C6_CredentialFailureNotForwarded ==
  ( /\ last.op = "proxy_to_qwen"
    /\ \/ last.step = "start" /\ last.pre.kind # "record"
       \/ last.step = "refreshed" /\ FailedTokenResponse(last.tresp) )
  => /\ last.out.status >= 500
     /\ last.out.status <= 599
     /\ ~last.sent
     /\ last.headers = NoHeaders

C6_Witness ==
  /\ last.op = "proxy_to_qwen"
  /\ last.step = "refreshed"
  /\ last.tresp.transport
  /\ last.out.status = 500
  /\ last.pre.kind = "record"

\* C7: the forwarded request carries exactly one Authorization header,
\* 'Bearer <current access_token>'; the inbound Host, the inbound
\* Authorization value and the Access-Guard secret header do not reach the
\* downstream API; every other inbound header passes through unchanged.
C7_HeaderPolicy ==
  last.sent =>
    LET H    == last.headers
        auth == {k \in DOMAIN H : Lower(k) = "authorization"}
        drop == {"host", "authorization", GuardHeader}
    IN  /\ Cardinality(auth) = 1
        /\ \A k \in auth : H[k] = <<"Bearer", last.ret.access_token>>
        /\ \A k \in DOMAIN H : Lower(k) \notin {"host", GuardHeader}
        /\ \A k \in DOMAIN last.inbound :
             Lower(k) \notin drop => (k \in DOMAIN H /\ H[k] = last.inbound[k])

\* C8: GET /credentials returns the record only to a request presenting a
\* secret equal to a configured, non-empty server secret; every other
\* request, and every request when no secret is configured, gets 401.
C8_AccessGuard ==
  last.op = "get_credentials" =>
    LET authorized == /\ last.configured.set
                      /\ last.configured.val # ""
                      /\ last.presented = last.configured
    IN  /\ last.out.status = 200 => authorized
        /\ ~authorized => last.out.status = 401

\* C9: POST /setup with a credential file already there answers 400 and
\* leaves the file as it was; a setup changes the file only when there was
\* none, and then writes the request's tokens with expiry_date = now +
\* expires_in.  So the record of the first successful setup stays.
C9_SetupOneTime ==
  last.op = "setup_credentials" =>
    /\ Exists(last.pre) => (last.out.status = 400 /\ file = last.pre)
    /\ last.out.status # 400 =>
         /\ ~Exists(last.pre)
         /\ file.kind = "record"
         /\ file.access_token = last.arg.access_token
         /\ file.refresh_token = last.arg.refresh_token
         /\ file.expiry_date = last.at + last.arg.expires_in

C9_Witness ==
  /\ last.op = "setup_credentials"
  /\ last.pre.kind = "record"
  /\ last.pre.access_token # last.arg.access_token
  /\ last.out.status = 400

\* C10: the status relayed to the caller equals the downstream status; a
\* downstream body with a JSON content type is decoded and re-encoded as
\* JSON, any other body is relayed as the raw bytes, undecoded.  This
\* includes a JSON content type on a body that is not valid JSON.
C10_ResponseRelay ==
  ( /\ last.op = "proxy_to_qwen"
    /\ last.step = "relay"
    /\ ~last.dresp.transport )
  => /\ last.out.status = last.dresp.status
     /\ IF last.dresp.ctype \in {"application/json", "application/json; charset=utf-8"}
          THEN last.out.kind = "json"
          ELSE last.out.kind = "raw" /\ last.out.body = last.dresp.body

\* C11: with a valid (present, unexpired) credential, an inbound request with
\* any method M, path P and body B is forwarded: one downstream request with
\* method M, URL = downstream base URL + "/" + P, and body B.
C11_RequestPassThrough ==
  ( /\ last.request # NoRequest
    /\ last.step \in {"start", "call"}
    /\ last.pre.kind = "record"
    /\ ~Expired(QwenCredentials(last.pre.access_token, last.pre.refresh_token,
                                last.pre.expiry_date), last.at) )
  => /\ last.sent
     /\ last.forward = MkForward(last.request.method,
                                 <<QWEN_API_BASE_URL, "/", last.request.path>>,
                                 last.request.body)

\* C12: a transport failure towards the downstream API is answered 502 with
\* the transport-failure detail, never the 500 of a credential failure; when
\* the downstream API answered, the caller never gets that 502 error.
C12_OutcomeClassification ==
  ( /\ last.op = "proxy_to_qwen"
    /\ last.step = "relay" )
  => /\ last.dresp.transport =>
          /\ last.out.status = 502
          /\ last.out.kind = "error"
     /\ ~last.dresp.transport =>
          ~(last.out.status = 502 /\ last.out.kind = "error")

C12_Witness ==
  /\ last.op = "proxy_to_qwen"
  /\ last.step = "relay"
  /\ last.dresp.transport
  /\ last.out.status = 502

\* C13: load_credentials never raises: for a file that does not hold a
\* well-formed record (missing, not JSON, or a JSON object without the
\* required fields) it returns None, so the proxy path answers "not
\* configured" and GET /credentials answers 404, never an unhandled error.
C13_LoadNeverFails ==
  ( /\ last.step \in {"start", "call"}
    /\ last.op \in {"proxy_to_qwen", "get_credentials"}
    /\ last.pre.kind # "record" )
  => /\ load_credentials(last.pre).tag = "none"
     /\ last.op = "proxy_to_qwen" =>
          last.out = CredentialError("Credenciales de Qwen no configuradas en el servidor.")
     /\ last.op = "get_credentials" => last.out.status = 404

\* C14: a save replaces the credentials file atomically: a load_credentials
\* or get_credentials that runs while another process is writing the file
\* never reads an empty or partly written file, it reads the complete old
\* record or the complete new one.
C14_AtomicReplace ==
  ( /\ last.op \in {"proxy_to_qwen", "get_credentials"}
    /\ last.step \in {"start", "call"}
    /\ wpc = "writing" )
  => /\ last.pre.kind # "empty"
     /\ last.pre.kind = "record"

C16_LivenessEndpoint ==
  ( /\ last.request # NoRequest
    /\ last.request.method = "GET"
    /\ last.request.path = "" )
  => /\ last.out.status = 200
     /\ ~last.posted
     /\ last.tresp = NoTokenResp
     /\ ~last.sent
     /\ last.forward = NoForward

\* The place of refresh token t in the order of issue, 0 for a token that
\* did not come from the provider (setup, environment).
RTIndex(t) ==
  IF \E k \in DOMAIN ProviderRT : ProviderRT[k] = t
    THEN CHOOSE k \in DOMAIN ProviderRT : ProviderRT[k] = t
    ELSE 0

\* C17: under any interleaving of proxy refreshes and refresher cycles, with
\* the provider rotating the refresh token on each successful refresh, the
\* persisted refresh_token is the one the provider issued last: the save of
\* a successful refresh never replaces the stored refresh token with one the
\* provider has already superseded.
C17_LatestRefreshTokenKept ==
  ( /\ RefreshAnswered
    /\ ~FailedTokenResponse(last.tresp)
    /\ last.tresp.body.has_refresh
    /\ last.pre.kind = "record" )
  => RTIndex(file.refresh_token) >= RTIndex(last.pre.refresh_token)

\* C18: a credentials file that exists without holding a well-formed record
\* is handled as an absent record by the bootstrap operations: POST /setup
\* writes its record over it, and initialize_credentials with a token pair in
\* the environment writes the bootstrap record, so that the store comes back
\* to a well-formed record.
C18_MalformedStorageSelfHeals ==
  /\ ( /\ last.op = "setup_credentials"
       /\ last.pre.kind \in {"garbage", "badobj"} )
     => /\ last.out.status = 200
        /\ file.kind = "record"
  /\ ( /\ last.op = "initialize_credentials"
       /\ last.step = "call"
       /\ last.pre.kind \in {"garbage", "badobj"}
       /\ last.env # NoEnv )
     => /\ wpc = "init_writing"
        /\ wsave.content.kind = "record"

\* C19: on the proxy path, when no persisted record exists and the
\* environment supplies an initial access/refresh token pair, the credential
\* step creates the record from that pair with expiry_date 0 (so the pair's
\* access token is refreshed before use) and fails as unconfigured only
\* without such a pair; with a persisted record the pair is not consulted
\* and does not overwrite the file, on the proxy path or in the refresher.
C19_BootstrapInEnsureValid ==
  /\ ( /\ last.op = "proxy_to_qwen"
       /\ last.step = "start"
       /\ last.pre.kind = "absent"
       /\ last.env # NoEnv )
     => /\ last.posted
        /\ file = MkFile("record", last.env.access_token, last.env.refresh_token,
                          0, FALSE)
  /\ ( /\ last.op = "proxy_to_qwen"
       /\ last.step = "start"
       /\ last.pre.kind = "absent"
       /\ last.env = NoEnv )
     => last.out = CredentialError("Credenciales de Qwen no configuradas en el servidor.")
  /\ ( /\ last.op \in {"proxy_to_qwen", "initialize_credentials"}
       /\ last.step \in {"start", "call"}
       /\ last.pre.kind = "record" )
     => file = last.pre

\* C20: when the persisted record carries token_type and resource_url (as
\* the refresher writes them), the record persisted by any later successful
\* refresh, in the refresher or on the proxy path, still carries them.
C20_MetadataPreserved ==
  ( /\ RefreshAnswered
    /\ ~FailedTokenResponse(last.tresp)
    /\ last.pre.kind = "record"
    /\ last.pre.meta )
  => /\ file.kind = "record"
     /\ file.meta

====
